---- MODULE Spec2Model ----
(***************************************************************************)
(* Model of the pymoo acquisition optimizer of atlas                       *)
(* (src/atlas/acquisition_optimizers/pymoo_optimizer.py): construction of  *)
(* a PymooGAOptimizer, the candidate-set evaluations pymoo requests from   *)
(* PymooProblemWrapper._evaluate during minimize(), and the batch          *)
(* selection of _batch_sample_selector on the final population.            *)
(*                                                                         *)
(* A Python value is a record [ty, val]: ty is the Python type ("int",     *)
(* "float", "str"), val the number in hundredths (0.5 is 50, the integer 1 *)
(* is 100), or for a string the number of the option name ("x0" is 0).     *)
(***************************************************************************)
EXTENDS Integers, Sequences, FiniteSets, TLC

\* ------------------------------------------------------------------ bounds
MaxBatch == 2
MaxPop == 3
MaxMeasured == 2
MaxEvalLen == 1
MaxGen == 1
MaxIndex == 3
MaxValues == 2
MaxInitDesign == 2
MaxNumGen == 3

\* ------------------------------------------------------- python values
IntV(n) == [ty |-> "int", val |-> 100 * n]
FloatV(n) == [ty |-> "float", val |-> n]
StrV(n) == [ty |-> "str", val |-> n]

\* Python/numpy ==: numbers compare by value, a string never equals a number
PyEq(a, b) == /\ (a.ty = "str") = (b.ty = "str")
              /\ a.val = b.val

IsNum(v) == v.ty \in {"int", "float"}

\* float(x) of an int or a float
ToFloat(v) == FloatV(v.val)

\* an insertion-ordered dict is a sequence of [k, v] pairs
DictKeys(d) == [i \in 1..Len(d) |-> d[i].k]

DictValues(d) == [i \in 1..Len(d) |-> d[i].v]

HasKey(d, key) == \E i \in 1..Len(d) : d[i].k = key

\* d[key] = value: an existing key keeps its position
DictSet(d, key, value) ==
    IF HasKey(d, key)
    THEN [i \in 1..Len(d) |-> IF d[i].k = key THEN [k |-> key, v |-> value] ELSE d[i]]
    ELSE Append(d, [k |-> key, v |-> value])

Min(a, b) == IF a < b THEN a ELSE b

\* ------------------------------------------------------ parameter spaces
ParameterCategorical(n, opts) ==
    [name |-> n, type |-> "categorical", options |-> opts, low |-> 0, high |-> 0]

ParameterDiscrete(n, opts, lo, hi) ==
    [name |-> n, type |-> "discrete", options |-> opts, low |-> lo, high |-> hi]

ParameterContinuous(n, lo, hi) ==
    [name |-> n, type |-> "continuous", options |-> <<>>, low |-> lo, high |-> hi]

\* categorical x0/x1 with a discrete parameter of options 0.0, 0.5
SpaceCatDisc ==
    << ParameterCategorical("param_0", <<StrV(0), StrV(1)>>),
       ParameterDiscrete("param_1", <<FloatV(0), FloatV(50)>>, 0, 50) >>

\* continuous [0, 1] with a discrete parameter of options 0.0, 0.5
SpaceContDisc ==
    << ParameterContinuous("param_0", 0, 100),
       ParameterDiscrete("param_1", <<FloatV(0), FloatV(50)>>, 0, 50) >>

\* a space whose second parameter has a type the optimizer does not know
ParameterOrdinal(n, opts) ==
    [name |-> n, type |-> "ordinal", options |-> opts, low |-> 0, high |-> 0]

SpaceContOrd ==
    << ParameterContinuous("param_0", 0, 100),
       ParameterOrdinal("param_1", <<StrV(0), StrV(1)>>) >>

Spaces == {SpaceCatDisc, SpaceContDisc, SpaceContOrd}

\* the reals a search samples inside a continuous parameter's bounds
ContinuousGrid == {20, 90}

\* ------------------------------------------- pymoo decision variables
Real(lo, hi) == [kind |-> "Real", lo |-> lo, hi |-> hi, options |-> <<>>]

Integer(lo, hi) == [kind |-> "Integer", lo |-> lo, hi |-> hi, options |-> <<>>]

Choice(opts) == [kind |-> "Choice", lo |-> 0, hi |-> 0, options |-> opts]

KnownTypes == {"continuous", "discrete", "categorical"}

\* variant: the index variable of a discrete parameter counts from one
PymooVarFromOne(param) ==
    IF param.type = "continuous" THEN Real(param.low, param.high)
    ELSE IF param.type = "discrete" THEN Integer(1, Len(param.options))
    ELSE Choice(param.options)

\* PymooGAOptimizer._set_pymoo_param_space: the decision variable of one parameter
PymooVar(param) ==
    IF param.type = "continuous" THEN Real(param.low, param.high)
    ELSE IF param.type = "discrete" THEN Integer(0, Len(param.options) - 1)
    ELSE Choice(param.options)

\* ... and the xl, xu entries appended for it
XlEntry(param) ==
    IF param.type \in {"continuous", "discrete"} THEN param.low ELSE 0

XuEntry(param) ==
    IF param.type \in {"continuous", "discrete"} THEN param.high
    ELSE Len(param.options) - 1

\* variant: a parameter of an unknown type is declared like a categorical one
SetPymooParamSpaceAnyType(space) ==
    [raised |-> FALSE,
     pymoo_space |-> [i \in 1..Len(space) |->
                         [k |-> space[i].name, v |-> PymooVar(space[i])]],
     xl |-> [i \in 1..Len(space) |-> XlEntry(space[i])],
     xu |-> [i \in 1..Len(space) |-> XuEntry(space[i])]]

\* PymooGAOptimizer._set_pymoo_param_space: raises ValueError on an unknown type
SetPymooParamSpace(space) ==
    IF \E i \in 1..Len(space) : space[i].type \notin KnownTypes
    THEN [raised |-> TRUE, pymoo_space |-> <<>>, xl |-> <<>>, xu |-> <<>>]
    ELSE [raised |-> FALSE,
          pymoo_space |-> [i \in 1..Len(space) |->
                              [k |-> space[i].name, v |-> PymooVar(space[i])]],
          xl |-> [i \in 1..Len(space) |-> XlEntry(space[i])],
          xu |-> [i \in 1..Len(space) |-> XuEntry(space[i])]]

\* the values pymoo draws for a declared decision variable
VarDomain(var) ==
    IF var.kind = "Real"
    THEN {FloatV(x) : x \in {y \in ContinuousGrid : var.lo <= y /\ y <= var.hi}}
    ELSE IF var.kind = "Integer" THEN {IntV(i) : i \in var.lo..var.hi}
    ELSE {var.options[i] : i \in 1..Len(var.options)}

\* the individuals (name-keyed records ind.X) of a mixed-variable search
Individuals(pspace) ==
    {d \in [1..Len(pspace) -> [k : {pspace[i].k : i \in 1..Len(pspace)},
                               v : UNION {VarDomain(pspace[i].v) : i \in 1..Len(pspace)}]] :
        \A i \in 1..Len(pspace) : d[i].k = pspace[i].k /\ d[i].v \in VarDomain(pspace[i].v)}

\* -------------------------------------------------- PymooProblemWrapper
\* variant: the positional values are paired with the names in reverse order
XToListDictsReversed(X, space) ==
    [n \in 1..Len(X) |->
        [i \in 1..Min(Len(space), Len(X[n])) |->
            [k |-> space[Min(Len(space), Len(X[n])) + 1 - i].name, v |-> X[n][i]]]]

\* _X_to_list_dicts: dict(zip(names, X_)) for every positional candidate
XToListDicts(X, space) ==
    [n \in 1..Len(X) |->
        [i \in 1..Min(Len(space), Len(X[n])) |-> [k |-> space[i].name, v |-> X[n][i]]]]

\* candidate sets arrive as name-keyed records or as positional arrays
IsDictForm(X) == X.form = "dict"

AsListDicts(X, space) ==
    IF IsDictForm(X) THEN X.items ELSE XToListDicts(X.items, space)

\* Python list indexing options[idx]: a negative index counts from the end
IndexInRange(options, idx) ==
    LET i == idx.val \div 100 IN -Len(options) <= i /\ i < Len(options)

OptionAt(options, idx) ==
    LET i == idx.val \div 100
    IN IF i >= 0 THEN options[i + 1] ELSE options[Len(options) + i + 1]

\* _pymoo_to_olympus, one entry: the raw value of param for the encoded value
DecodeValue(param, enc) ==
    IF param.type = "discrete" THEN ToFloat(OptionAt(param.options, enc))
    ELSE IF param.type = "continuous" THEN ToFloat(enc)
    ELSE enc

RECURSIVE DecodeLoop(_, _, _, _)
DecodeLoop(sample, space, i, olymp_sample) ==
    IF i > Min(Len(sample), Len(space)) THEN olymp_sample
    ELSE DecodeLoop(sample, space, i + 1,
            IF space[i].type \in KnownTypes
            THEN DictSet(olymp_sample, space[i].name, DecodeValue(space[i], sample[i].v))
            ELSE olymp_sample)

\* _pymoo_to_olympus, one sample (a name-keyed record) to an olympus sample
DecodeSample(sample, space) == DecodeLoop(sample, space, 1, <<>>)

\* IndexError of options[idx] inside _pymoo_to_olympus
DecodeRaises(sample, space) ==
    \E i \in 1..Min(Len(sample), Len(space)) :
        /\ space[i].type = "discrete"
        /\ ~IndexInRange(space[i].options, sample[i].v)

\* _pymoo_to_olympus(samples, return_param_vec=True): one parameter vector per sample
PymooToOlympus(X, space) ==
    LET samples == AsListDicts(X, space)
    IN [n \in 1..Len(samples) |-> DecodeSample(samples[n], space)]

PymooToOlympusRaises(X, space) ==
    LET samples == AsListDicts(X, space)
    IN \E n \in 1..Len(samples) : DecodeRaises(samples[n], space)

\* ---------------------------------------------- gen_initial_population
\* param.options.index(elem): the position of the first option equal to elem
IndexOf(options, elem) ==
    CHOOSE i \in 0..(Len(options) - 1) :
        /\ PyEq(options[i + 1], elem)
        /\ \A j \in 0..(i - 1) : ~PyEq(options[j + 1], elem)

\* str(elem): an option string is itself, a number becomes its numeral
PyStr(elem) == IF elem.ty = "str" THEN elem ELSE StrV(1000 + elem.val)

\* variant: a discrete value is encoded by its position counted from one
EncodeValueFromOne(param, elem) ==
    IF param.type = "discrete" THEN IntV(IndexOf(param.options, elem) + 1)
    ELSE IF param.type = "continuous" THEN ToFloat(elem)
    ELSE PyStr(elem)

\* gen_initial_population, one entry: the encoded value of a raw value
EncodeValue(param, elem) ==
    IF param.type = "discrete" THEN IntV(IndexOf(param.options, elem))
    ELSE IF param.type = "continuous" THEN ToFloat(elem)
    ELSE PyStr(elem)

RECURSIVE EncodeLoop(_, _, _, _)
EncodeLoop(sample, space, i, pop_dict) ==
    IF i > Min(Len(sample), Len(space)) THEN pop_dict
    ELSE EncodeLoop(sample, space, i + 1,
            DictSet(pop_dict, space[i].name, EncodeValue(space[i], sample[i])))

\* gen_initial_population: pop_dict of one raw sample once its loop has ended
EncodeSample(sample, space) == EncodeLoop(sample, space, 1, <<>>)

\* gen_initial_population: pop_list_dicts.  The append sits inside the loop
\* over the parameters, so every sample contributes one reference to its
\* pop_dict per parameter, each showing the completed dict.
PopListDicts(samples_raw, space) ==
    LET n == Min(Len(samples_raw[1]), Len(space))
    IN [e \in 1..(Len(samples_raw) * n) |->
            EncodeSample(samples_raw[((e - 1) \div n) + 1], space)]

\* ---------------------------------------------------- known constraints
\* tests: known_constraints_mixed_cat_disc(params), Python's short-circuit "and"
MixedCatDiscSecond(params) ==
    IF PyEq(params[1], StrV(3))
    THEN IF Len(params) < 3 THEN "raise"
         ELSE IF ~IsNum(params[3]) THEN "raise"
         ELSE IF params[3].val < 25 THEN "False" ELSE "True"
    ELSE "True"

KnownConstraintsMixedCatDisc(params) ==
    IF PyEq(params[1], StrV(0))
    THEN IF Len(params) < 2 THEN "raise"
         ELSE IF ~IsNum(params[2]) THEN "raise"
         ELSE IF params[2].val > 50 THEN "False" ELSE MixedCatDiscSecond(params)
    ELSE MixedCatDiscSecond(params)

\* tests: known_constraints_cont(params) on the first two parameters:
\* params[0] > 0.8 is infeasible, params[1] < 0.1 is infeasible; comparing a
\* string with a number raises TypeError
KnownConstraintsCont(params) ==
    IF ~IsNum(params[1]) THEN "raise"
    ELSE IF params[1].val > 80 THEN "False"
    ELSE IF Len(params) < 2 THEN "raise"
    ELSE IF ~IsNum(params[2]) THEN "raise"
    ELSE IF params[2].val < 10 THEN "False" ELSE "True"

\* kc(X_arr) for a registered predicate
KcCall(kc, X_arr) ==
    IF kc = "known_constraints_mixed_cat_disc" THEN KnownConstraintsMixedCatDisc(X_arr)
    ELSE KnownConstraintsCont(X_arr)

\* the known-constraint lists a planner is configured with
KnownConstraintLists ==
    { <<>>,
      <<"known_constraints_mixed_cat_disc">>,
      <<"known_constraints_cont">>,
      <<"known_constraints_mixed_cat_disc", "known_constraints_cont">> }

\* known_constraints.is_empty
IsEmpty(kcs) == Len(kcs) = 0

\* variant: any(kc_vals_bool)
AnyTrue(vals) == \E i \in 1..Len(vals) : vals[i] = "True"

\* all(kc_vals_bool)
AllTrue(vals) == \A i \in 1..Len(vals) : vals[i] = "True"

\* _known_constraints_wrapper, one candidate: kc_vals_bool = [kc(X_arr) for kc in ...]
KcValsBool(X_, kcs) ==
    LET X_arr == DictValues(X_) IN [j \in 1..Len(kcs) |-> KcCall(kcs[j], X_arr)]

\* _known_constraints_wrapper: -2 for a feasible candidate, 2 for an infeasible one
KnownConstraintsWrapper(X, kcs) ==
    [n \in 1..Len(X) |-> IF AllTrue(KcValsBool(X[n], kcs)) THEN -2 ELSE 2]

\* variant: a raising predicate is caught and counts as not satisfied
KnownConstraintsWrapperNeverRaises(X, kcs) == FALSE

\* a predicate raising inside _known_constraints_wrapper
KnownConstraintsWrapperRaises(X, kcs) ==
    \E n \in 1..Len(X) : \E j \in 1..Len(kcs) : KcValsBool(X[n], kcs)[j] = "raise"

\* ------------------------------------------------- acquisition function
AcqfKinds == {"rising", "falling"}

RECURSIVE SumVals(_, _)
SumVals(vals, i) == IF i > Len(vals) THEN 0 ELSE vals[i].val + SumVals(vals, i + 1)

\* self.acqf(X_torch) for one candidate: the caller's acquisition function
AcqfCall(kind, olymp_sample) ==
    IF kind = "rising" THEN SumVals(DictValues(olymp_sample), 1)
    ELSE 0 - SumVals(DictValues(olymp_sample), 1)

\* the dict pymoo hands to _evaluate, before anything is written to it
EmptyOut == [keys |-> {}, F |-> <<>>, G |-> <<>>]

\* variant: the acquisition value is written to F as it is
EvaluateOutNoFlip(X_in, space, kcs, kind) ==
    LET X == AsListDicts(X_in, space)
        X_olymp == PymooToOlympus(X_in, space)
        f == [n \in 1..Len(X_olymp) |-> AcqfCall(kind, X_olymp[n])]
    IN IF ~IsEmpty(kcs)
       THEN IF KnownConstraintsWrapperRaises(X, kcs)
            THEN [keys |-> {"F"}, F |-> f, G |-> <<>>]
            ELSE [keys |-> {"F", "G"}, F |-> f, G |-> KnownConstraintsWrapper(X, kcs)]
       ELSE [keys |-> {"F"}, F |-> f, G |-> <<>>]

\* _evaluate: out['F'] = -acqf(X), and out['G'] when known constraints exist
EvaluateOut(X_in, space, kcs, kind) ==
    LET X == AsListDicts(X_in, space)
        X_olymp == PymooToOlympus(X_in, space)
        f == [n \in 1..Len(X_olymp) |-> 0 - AcqfCall(kind, X_olymp[n])]
    IN IF ~IsEmpty(kcs)
       THEN IF KnownConstraintsWrapperRaises(X, kcs)
            THEN [keys |-> {"F"}, F |-> f, G |-> <<>>]
            ELSE [keys |-> {"F", "G"}, F |-> f, G |-> KnownConstraintsWrapper(X, kcs)]
       ELSE [keys |-> {"F"}, F |-> f, G |-> <<>>]

\* the exception leaving _evaluate, "none" when it returns
EvaluateRaises(X_in, space, kcs) ==
    IF PymooToOlympusRaises(X_in, space) THEN "IndexError"
    ELSE IF ~IsEmpty(kcs) /\ KnownConstraintsWrapperRaises(AsListDicts(X_in, space), kcs)
    THEN "ConstraintError"
    ELSE "none"

\* ------------------------------------------------------ PymooGAOptimizer
\* variant of the check: batch_size may equal pop_size
BatchSizeOkOrEqual(b, p) == b <= p

\* __init__: the batch_size / pop_size check
BatchSizeOk(b, p) == b < p

\* any((self._params[:] == sample_arr).all(1)): some previously measured row
\* equals the decoded sample, taken as the array of its values, on every dimension
IsMeasured(measured, sample_arr) ==
    \E row \in measured :
        /\ Len(row) = Len(sample_arr)
        /\ \A j \in 1..Len(row) : PyEq(row[j], sample_arr[j])

\* variants of the selection loop: no break once the batch is full
RECURSIVE SelectLoopNoBreak(_, _, _, _, _)
SelectLoopNoBreak(samples, measured, b, i, batch_samples) ==
    IF i > Len(samples) THEN batch_samples
    ELSE SelectLoopNoBreak(samples, measured, b, i + 1,
            IF ~IsMeasured(measured, DictValues(samples[i]))
            THEN Append(batch_samples, samples[i])
            ELSE batch_samples)

\* ... no test against the measured rows
RECURSIVE SelectLoopNoSkip(_, _, _, _, _)
SelectLoopNoSkip(samples, measured, b, i, batch_samples) ==
    IF i > Len(samples) THEN batch_samples
    ELSE LET appended == Append(batch_samples, samples[i])
         IN IF Len(appended) = b THEN appended
            ELSE SelectLoopNoSkip(samples, measured, b, i + 1, appended)

\* ... only the first batch_size candidates of the population are looked at
RECURSIVE SelectLoopSlice(_, _, _, _, _)
SelectLoopSlice(samples, measured, b, i, batch_samples) ==
    IF i > Len(samples) \/ i > b THEN batch_samples
    ELSE SelectLoopSlice(samples, measured, b, i + 1,
            IF ~IsMeasured(measured, DictValues(samples[i]))
            THEN Append(batch_samples, samples[i])
            ELSE batch_samples)

\* ... the loop is left at the first measured candidate
RECURSIVE SelectLoopStopAtMeasured(_, _, _, _, _)
SelectLoopStopAtMeasured(samples, measured, b, i, batch_samples) ==
    IF i > Len(samples) THEN batch_samples
    ELSE IF IsMeasured(measured, DictValues(samples[i])) THEN batch_samples
    ELSE LET appended == Append(batch_samples, samples[i])
         IN IF Len(appended) = b THEN appended
            ELSE SelectLoopStopAtMeasured(samples, measured, b, i + 1, appended)

\* ... a short batch is filled up with the best candidate
RECURSIVE SelectLoopFill(_, _, _, _, _)
SelectLoopFill(samples, measured, b, i, batch_samples) ==
    IF i > Len(samples)
    THEN IF Len(batch_samples) < b THEN Append(batch_samples, samples[1])
         ELSE batch_samples
    ELSE LET appended == IF ~IsMeasured(measured, DictValues(samples[i]))
                         THEN Append(batch_samples, samples[i])
                         ELSE batch_samples
         IN IF Len(appended) = b THEN appended
            ELSE SelectLoopFill(samples, measured, b, i + 1, appended)

\* _batch_sample_selector: the loop over the decoded final population
RECURSIVE SelectLoop(_, _, _, _, _)
SelectLoop(samples, measured, b, i, batch_samples) ==
    IF i > Len(samples) THEN batch_samples
    ELSE LET appended == IF ~IsMeasured(measured, DictValues(samples[i]))
                         THEN Append(batch_samples, samples[i])
                         ELSE batch_samples
         IN IF Len(appended) = b THEN appended
            ELSE SelectLoop(samples, measured, b, i + 1, appended)

\* _batch_sample_selector(final_pop)
BatchSampleSelector(final_pop, space, measured, b) ==
    SelectLoop(PymooToOlympus([form |-> "dict", items |-> final_pop], space),
               measured, b, 1, <<>>)

\* Logger.log(msg, 'FATAL') ends the call that reports it
FatalAborts == TRUE

\* ---------------------------------------------------------------- state
VARIABLES
    pc,                \* "new", "fatal", "ValueError", "ready", "minimize", "returned",
                       \* "raised", "done"
    param_space,       \* params_obj.param_space
    batch_size,
    pop_size,
    num_gen,
    known_constraints,
    params,            \* self._params: the previously measured rows
    acqf,
    pymoo_space,       \* self.pymoo_space, xl, xu
    xl,
    xu,
    pymoo_problem,     \* the PymooProblemWrapper
    algorithm,         \* the MixedVariableGA
    n_evals,           \* evaluations minimize() has spent
    X,                 \* the candidate set of the running _evaluate call
    out,               \* ... and its out dict
    error,             \* the exception that left the call, "none" otherwise
    res_pop,           \* res.pop, the final population
    return_params,     \* the batch _optimize returns
    samples_raw,       \* gen_initial_population: the proposals of propose_randomly
    samples,           \* _pymoo_to_olympus: the encoded samples it is called with
    olymp_samples,     \* ... and the samples it returns
    acquisition_type,            \* BoTorchPlanner: the constructor's arguments
    acquisition_optimizer_kind,
    batched_strategy,
    general_parameters,
    num_init_design,
    values,            \* self._values: "num" or "nan" per observation
    reg_model,         \* the regression surrogate has been fitted
    self_acqf,         \* self.acqf: the acquisition function built, "none" before
    acquisition_optimizer,       \* the optimizer _ask constructed, "none" before
    optimized,         \* acquisition_optimizer.optimize() has run
    ask_return,        \* what _ask returned: "none", "initial_design", "optimize"
    observations,      \* campaign.observations: the lengths of get_params(), get_values()
    observed_all_nan,  \* ... every measurement recorded so far is nan
    batch              \* the samples of the last recommend() not yet recorded

vars == << pc, param_space, batch_size, pop_size, num_gen, known_constraints, params,
           acqf, pymoo_space, xl, xu, pymoo_problem, algorithm, n_evals, X, out,
           error, res_pop, return_params, samples_raw, samples, olymp_samples,
           acquisition_type, acquisition_optimizer_kind, batched_strategy,
           general_parameters, num_init_design, values, reg_model, self_acqf,
           acquisition_optimizer, optimized, ask_return, observations,
           observed_all_nan, batch >>

config == << param_space, batch_size, pop_size, num_gen, known_constraints, params, acqf >>

built == << pymoo_space, xl, xu, pymoo_problem, algorithm >>

codec == << samples_raw, samples, olymp_samples >>

planner_config == << acquisition_type, acquisition_optimizer_kind, batched_strategy,
                     general_parameters, num_init_design, values >>

planner == << planner_config, reg_model, self_acqf, acquisition_optimizer, optimized,
              ask_return >>

campaign == << observations, observed_all_nan, batch >>

\* the state outside the optimizer, which none of its methods touches
others == << codec, planner, campaign >>

\* Campaign(): no observation yet
CampaignIdle ==
    /\ observations = [params |-> 0, values |-> 0]
    /\ observed_all_nan = TRUE
    /\ batch = 0

\* BoTorchPlanner.__init__: the defaults of the arguments, before any _ask
PlannerIdle ==
    /\ acquisition_type = "ei"
    /\ acquisition_optimizer_kind = "gradient"
    /\ batched_strategy = "sequential"
    /\ general_parameters = "None"
    /\ num_init_design = 5
    /\ values = <<>>
    /\ reg_model = FALSE
    /\ self_acqf = "none"
    /\ acquisition_optimizer = "none"
    /\ optimized = FALSE
    /\ ask_return = "none"

\* the raw values a parameter takes in an observation
RawDomain(param) ==
    IF param.type = "continuous"
    THEN {FloatV(x) : x \in {y \in ContinuousGrid : param.low <= y /\ y <= param.high}}
    ELSE {param.options[i] : i \in 1..Len(param.options)}

\* the rows of campaign observations over a space
RawPoints(space) ==
    {r \in [1..Len(space) -> UNION {RawDomain(space[i]) : i \in 1..Len(space)}] :
        \A i \in 1..Len(space) : r[i] \in RawDomain(space[i])}

NoProblem == [built |-> FALSE, n_var |-> 0, n_obj |-> 0, n_constr |-> 0,
              xl |-> <<>>, xu |-> <<>>]

NoAlgorithm == [built |-> FALSE, pop_size |-> 0]

NoX == [form |-> "dict", items |-> <<>>]

\* The arguments of PymooGAOptimizer(...) as the planner passes them.  batch_size
\* is the planner's number of samples to measure per batch, at least 1:
\* _evaluate tiles every candidate batch_size times for the acquisition function.
Init ==
    /\ pc = "new"
    /\ param_space \in Spaces
    /\ batch_size \in 1..MaxBatch
    /\ pop_size \in 1..MaxPop
    /\ num_gen = MaxGen
    /\ known_constraints \in KnownConstraintLists
    /\ params \in {m \in SUBSET RawPoints(param_space) : Cardinality(m) <= MaxMeasured}
    /\ acqf = "rising"
    /\ pymoo_space = <<>>
    /\ xl = <<>>
    /\ xu = <<>>
    /\ pymoo_problem = NoProblem
    /\ algorithm = NoAlgorithm
    /\ n_evals = 0
    /\ X = NoX
    /\ out = EmptyOut
    /\ error = "none"
    /\ res_pop = <<>>
    /\ return_params = <<>>
    /\ samples_raw = <<>>
    /\ samples = NoX
    /\ olymp_samples = <<>>
    /\ PlannerIdle
    /\ CampaignIdle

\* variant: one constraint is declared whatever the known constraints are
NewProblemAlwaysConstrained(space, kcs, lower, upper) ==
    [built |-> TRUE, n_var |-> Len(space), n_obj |-> 1,
     n_constr |-> 1, xl |-> lower, xu |-> upper]

\* PymooProblemWrapper.__init__
NewProblem(space, kcs, lower, upper) ==
    [built |-> TRUE, n_var |-> Len(space), n_obj |-> 1,
     n_constr |-> IF ~IsEmpty(kcs) THEN 1 ELSE 0, xl |-> lower, xu |-> upper]

\* PymooGAOptimizer.__init__
Construct ==
    /\ pc = "new"
    /\ IF ~BatchSizeOk(batch_size, pop_size) /\ FatalAborts
       THEN /\ pc' = "fatal"
            /\ error' = "FATAL"
            /\ UNCHANGED built
       ELSE LET r == SetPymooParamSpace(param_space)
            IN IF r.raised
               THEN /\ pc' = "ValueError"
                    /\ error' = "ValueError"
                    /\ UNCHANGED built
               ELSE /\ pymoo_space' = r.pymoo_space
                    /\ xl' = r.xl
                    /\ xu' = r.xu
                    /\ pymoo_problem' = NewProblem(param_space, known_constraints, r.xl, r.xu)
                    /\ algorithm' = [built |-> TRUE, pop_size |-> pop_size]
                    /\ pc' = "ready"
                    /\ UNCHANGED error
    /\ UNCHANGED << others, config, n_evals, X, out, res_pop, return_params >>

\* _optimize: minimize(problem, algorithm, termination=('n_evals', num_gen)) starts
Optimize ==
    /\ pc = "ready"
    /\ pc' = "minimize"
    /\ n_evals' = 0
    /\ UNCHANGED << others, config, built, X, out, error, res_pop, return_params >>

\* a candidate set in the form pymoo passes it
CandidateSet(form, items) ==
    IF form = "dict" THEN [form |-> "dict", items |-> items]
    ELSE [form |-> "array", items |-> [n \in 1..Len(items) |-> DictValues(items[n])]]

\* variant: the evaluations of a call are not counted against the budget
EvaluateUncounted ==
    /\ pc = "minimize"
    /\ n_evals < num_gen
    /\ \E form \in {"dict", "array"} : \E len \in 1..MaxEvalLen :
       \E items \in [1..len -> Individuals(pymoo_space)] :
          LET X_in == CandidateSet(form, items)
              exc == EvaluateRaises(X_in, param_space, known_constraints)
          IN /\ X' = X_in
             /\ n_evals' = n_evals
             /\ out' = IF exc = "IndexError" THEN EmptyOut
                       ELSE EvaluateOut(X_in, param_space, known_constraints, acqf)
             /\ error' = exc
             /\ pc' = IF exc = "none" THEN "minimize" ELSE "raised"
    /\ UNCHANGED << others, config, built, res_pop, return_params >>

\* one _evaluate(X, out) call made by minimize() while evaluations remain
Evaluate ==
    /\ pc = "minimize"
    /\ n_evals < num_gen
    /\ \E form \in {"dict", "array"} : \E len \in 1..MaxEvalLen :
       \E items \in [1..len -> Individuals(pymoo_space)] :
          LET X_in == CandidateSet(form, items)
              exc == EvaluateRaises(X_in, param_space, known_constraints)
          IN /\ X' = X_in
             /\ n_evals' = n_evals + len
             /\ out' = IF exc = "IndexError" THEN EmptyOut
                       ELSE EvaluateOut(X_in, param_space, known_constraints, acqf)
             /\ error' = exc
             /\ pc' = IF exc = "none" THEN "minimize" ELSE "raised"
    /\ UNCHANGED << others, config, built, res_pop, return_params >>

\* pymoo ranks the final population feasible candidates first
FeasibleFirst(pop, kcs) ==
    \/ IsEmpty(kcs)
    \/ LET g == KnownConstraintsWrapper(pop, kcs)
       IN \A i \in 1..Len(pop) : \A j \in i..Len(pop) : g[i] <= g[j]

\* the final populations minimize() can return: at least one and at most
\* pop_size evaluated individuals
FinalPopulations(pspace, space, kcs, p) ==
    UNION { {pop \in [1..len -> Individuals(pspace)] :
                /\ ~KnownConstraintsWrapperRaises(pop, kcs)
                /\ FeasibleFirst(pop, kcs)} : len \in 1..p }

\* _optimize: minimize() returns res once the evaluation budget is spent; the
\* candidate set and the out dict of its last _evaluate call are gone
MinimizeReturn ==
    /\ pc = "minimize"
    /\ n_evals >= num_gen
    /\ X' = NoX
    /\ out' = EmptyOut
    /\ pc' = "returned"
    /\ UNCHANGED << others, config, built, n_evals, error, res_pop, return_params >>

\* variant: the selector adds the rows of the batch it returns to self._params
BatchSelectRecording ==
    /\ pc = "returned"
    /\ \E pop \in FinalPopulations(pymoo_space, param_space, known_constraints, pop_size) :
          LET selected == BatchSampleSelector(pop, param_space, params, batch_size)
          IN /\ res_pop' = pop
             /\ return_params' = selected
             /\ params' = params \cup {DictValues(selected[i]) : i \in 1..Len(selected)}
    /\ pc' = "done"
    /\ UNCHANGED << others, param_space, batch_size, pop_size, num_gen,
                    known_constraints, acqf, built, n_evals, X, out, error >>

\* _optimize: return_params = self._batch_sample_selector(res.pop)
BatchSelect ==
    /\ pc = "returned"
    /\ \E pop \in FinalPopulations(pymoo_space, param_space, known_constraints, pop_size) :
          /\ res_pop' = pop
          /\ return_params' = BatchSampleSelector(pop, param_space, params, batch_size)
    /\ pc' = "done"
    /\ UNCHANGED << others, config, built, n_evals, X, out, error >>

Next == Construct \/ Optimize \/ Evaluate \/ MinimizeReturn \/ BatchSelect

Spec == Init /\ [][Next]_vars

\* ------------------------------------------- budgets of several evaluations
\* an optimizer on the categorical/discrete space, with every evaluation
\* budget up to MaxNumGen
InitBudget ==
    /\ pc = "new"
    /\ param_space = SpaceCatDisc
    /\ batch_size = 1
    /\ pop_size = 2
    /\ num_gen \in 1..MaxNumGen
    /\ known_constraints \in {<<>>, <<"known_constraints_mixed_cat_disc">>}
    /\ params \in {m \in SUBSET RawPoints(param_space) : Cardinality(m) <= 1}
    /\ acqf = "rising"
    /\ pymoo_space = <<>>
    /\ xl = <<>>
    /\ xu = <<>>
    /\ pymoo_problem = NoProblem
    /\ algorithm = NoAlgorithm
    /\ n_evals = 0
    /\ X = NoX
    /\ out = EmptyOut
    /\ error = "none"
    /\ res_pop = <<>>
    /\ return_params = <<>>
    /\ samples_raw = <<>>
    /\ samples = NoX
    /\ olymp_samples = <<>>
    /\ PlannerIdle
    /\ CampaignIdle

\* optimize() is a synchronous, blocking call: minimize() keeps taking its next
\* step until it returns or an exception leaves it
SpecBudget == InitBudget /\ [][Next]_vars /\ WF_vars(Next)

\* ------------------------------------ encoding and decoding on their own
\* propose_randomly(num_proposals=pop, param_space): pop random raw samples
ProposeRandomly(space, pop) == [1..pop -> RawPoints(space)]

\* the encoded values a caller can hand over for a parameter: any integer for
\* a discrete one
EncodedDomain(param) ==
    IF param.type = "discrete" THEN {IntV(i) : i \in (0 - MaxIndex)..MaxIndex}
    ELSE RawDomain(param)

\* the name-keyed encoded samples over a space
EncodedSamples(space) ==
    {d \in [1..Len(space) -> [k : {space[i].name : i \in 1..Len(space)},
                              v : UNION {EncodedDomain(space[i]) : i \in 1..Len(space)}]] :
        \A i \in 1..Len(space) : d[i].k = space[i].name /\ d[i].v \in EncodedDomain(space[i])}

InitCodec ==
    /\ pc = "codec"
    /\ param_space \in Spaces
    /\ batch_size = 1
    /\ pop_size \in 1..MaxPop
    /\ num_gen = MaxGen
    /\ known_constraints = <<>>
    /\ params = {}
    /\ acqf = "rising"
    /\ pymoo_space = <<>>
    /\ xl = <<>>
    /\ xu = <<>>
    /\ pymoo_problem = NoProblem
    /\ algorithm = NoAlgorithm
    /\ n_evals = 0
    /\ X = NoX
    /\ out = EmptyOut
    /\ error = "none"
    /\ res_pop = <<>>
    /\ return_params = <<>>
    /\ samples_raw = <<>>
    /\ samples = NoX
    /\ olymp_samples = <<>>
    /\ PlannerIdle
    /\ CampaignIdle

optimizer == << config, built, n_evals, X, out, res_pop, return_params >>

\* gen_initial_population(space, pop, param_space, has_descriptors)
GenInitialPopulation ==
    /\ pc = "codec"
    /\ \E raw \in ProposeRandomly(param_space, pop_size) :
          /\ samples_raw' = raw
          /\ samples' = [form |-> "dict", items |-> PopListDicts(raw, param_space)]
    /\ pc' = "encoded"
    /\ UNCHANGED << optimizer, planner, campaign, error, olymp_samples >>

\* _pymoo_to_olympus(samples): the olympus samples, or the IndexError of line 88
Decode(samples_in) ==
    IF PymooToOlympusRaises(samples_in, param_space)
    THEN /\ olymp_samples' = <<>>
         /\ error' = "IndexError"
         /\ pc' = "raised"
    ELSE /\ olymp_samples' = PymooToOlympus(samples_in, param_space)
         /\ error' = "none"
         /\ pc' = "decoded"

\* _pymoo_to_olympus called with the generated population
DecodePopulation ==
    /\ pc = "encoded"
    /\ Decode(samples)
    /\ UNCHANGED << optimizer, planner, campaign, samples_raw, samples >>

\* _pymoo_to_olympus called with one sample of any caller, in either form
DecodeSamples ==
    /\ pc = "codec"
    /\ \E form \in {"dict", "array"} : \E sample \in EncodedSamples(param_space) :
          LET samples_in == CandidateSet(form, <<sample>>)
          IN /\ samples' = samples_in
             /\ Decode(samples_in)
    /\ UNCHANGED << optimizer, planner, campaign, samples_raw >>

NextCodec == GenInitialPopulation \/ DecodePopulation \/ DecodeSamples

SpecCodec == InitCodec /\ [][NextCodec]_vars

\* ------------------------------------------------------- BoTorchPlanner
\* the acquisition types _ask builds an acquisition function for
AskAcquisitionTypes == {"ei", "qei", "ucb", "lcb", "variance", "general"}

\* the acquisition types get_aqcf_min_max has a branch for
MinMaxAcquisitionTypes == {"ei", "qei", "ucb", "lcb", "ucbv2", "variance", "general"}

\* the strings a caller passes as acquisition_type; "pi" is none the code names
AcquisitionTypes == MinMaxAcquisitionTypes \cup {"pi"}

\* the acquisition optimizers _ask has a branch for
OptimizerKinds == {"gradient", "genetic", "pymoo"}

\* the strings a caller passes as acquisition_optimizer_kind
AnyOptimizerKinds == OptimizerKinds \cup {"random"}

\* the observation lists of a campaign: a number or nan per observation
ValueLists == UNION {[1..n -> {"num", "nan"}] : n \in 0..MaxValues}

InitPlanner ==
    /\ pc = "planner_new"
    /\ param_space = SpaceCatDisc
    /\ batch_size \in 1..MaxBatch
    /\ pop_size = MaxPop
    /\ num_gen = MaxGen
    /\ known_constraints = <<>>
    /\ params = {}
    /\ acqf = "rising"
    /\ pymoo_space = <<>>
    /\ xl = <<>>
    /\ xu = <<>>
    /\ pymoo_problem = NoProblem
    /\ algorithm = NoAlgorithm
    /\ n_evals = 0
    /\ X = NoX
    /\ out = EmptyOut
    /\ error = "none"
    /\ res_pop = <<>>
    /\ return_params = <<>>
    /\ samples_raw = <<>>
    /\ samples = NoX
    /\ olymp_samples = <<>>
    /\ acquisition_type \in AcquisitionTypes
    /\ acquisition_optimizer_kind \in AnyOptimizerKinds
    /\ batched_strategy \in {"sequential", "greedy"}
    /\ general_parameters \in {"None", "given"}
    /\ num_init_design \in 1..MaxInitDesign
    /\ values \in ValueLists
    /\ reg_model = FALSE
    /\ self_acqf = "none"
    /\ acquisition_optimizer = "none"
    /\ optimized = FALSE
    /\ ask_return = "none"
    /\ CampaignIdle

asked == << reg_model, self_acqf, acquisition_optimizer, optimized, ask_return >>

\* variant: the requested acquisition type is kept whatever else is given
PlannerConstructKeepsType ==
    /\ pc = "planner_new"
    /\ pc' = "planner_ready"
    /\ UNCHANGED << optimizer, codec, campaign, error, asked, planner_config >>

\* BoTorchPlanner.__init__: general parameters override the acquisition type
PlannerConstruct ==
    /\ pc = "planner_new"
    /\ acquisition_type' = IF general_parameters # "None" /\ acquisition_type # "general"
                           THEN "general" ELSE acquisition_type
    /\ pc' = "planner_ready"
    /\ UNCHANGED << optimizer, codec, campaign, error, asked, acquisition_optimizer_kind,
                    batched_strategy, general_parameters, num_init_design, values >>

\* variant: np.any in place of np.all
AnyNan(vals) == \E i \in 1..Len(vals) : vals[i] = "nan"

\* np.all(np.isnan(self._values)): true of the empty list
AllNan(vals) == \A i \in 1..Len(vals) : vals[i] = "nan"

\* _ask: the initial design, or the start of the model-based branch
AskStart ==
    /\ pc = "planner_ready"
    /\ IF Len(values) < num_init_design \/ AllNan(values)
       THEN /\ ask_return' = "initial_design"
            /\ pc' = "asked"
       ELSE /\ pc' = "model_based"
            /\ UNCHANGED ask_return
    /\ UNCHANGED << optimizer, codec, campaign, error, planner_config, reg_model, self_acqf,
                    acquisition_optimizer, optimized >>

\* _ask: build_train_data and build_train_regression_gp
FitRegressionGP ==
    /\ pc = "model_based"
    /\ reg_model' = TRUE
    /\ pc' = "surrogate_fitted"
    /\ UNCHANGED << optimizer, codec, campaign, error, planner_config, self_acqf,
                    acquisition_optimizer, optimized, ask_return >>

\* get_aqcf_min_max: with no branch for the type, the local acqf is unbound
\* when it is called
GetAqcfMinMax ==
    /\ pc = "surrogate_fitted"
    /\ IF acquisition_type \in MinMaxAcquisitionTypes
       THEN /\ pc' = "min_max_known"
            /\ UNCHANGED error
       ELSE /\ pc' = "raised"
            /\ error' = "UnboundLocalError"
    /\ UNCHANGED << optimizer, codec, campaign, planner >>

\* variant: the chain without the batched-strategy test of its 'ei' branch
BuildAcqfFatalQeiOnly(type, b, strategy) ==
    IF type = "qei" /\ ~(b > 1) THEN "FATAL: QEI needs batch size > 1"
    ELSE IF type \notin AskAcquisitionTypes THEN "FATAL: not understood"
    ELSE "none"

\* _ask: the chain over self.acquisition_type; its FATAL report, "none" when
\* the acquisition function is built
BuildAcqfFatal(type, b, strategy) ==
    IF type = "ei" /\ b > 1 /\ strategy = "sequential" THEN "FATAL: sequential with EI"
    ELSE IF type = "qei" /\ ~(b > 1) THEN "FATAL: QEI needs batch size > 1"
    ELSE IF type \notin AskAcquisitionTypes THEN "FATAL: not understood"
    ELSE "none"

BuildAcqf ==
    /\ pc = "min_max_known"
    /\ LET fatal == BuildAcqfFatal(acquisition_type, batch_size, batched_strategy)
       IN IF fatal # "none" /\ FatalAborts
          THEN /\ error' = fatal
               /\ pc' = "fatal"
               /\ UNCHANGED self_acqf
          ELSE /\ self_acqf' = acquisition_type
               /\ pc' = "acqf_built"
               /\ UNCHANGED error
    /\ UNCHANGED << optimizer, codec, campaign, planner_config, reg_model, acquisition_optimizer,
                    optimized, ask_return >>

\* _ask: the if/elif chain over self.acquisition_optimizer_kind has no else
BuildOptimizer ==
    /\ pc = "acqf_built"
    /\ acquisition_optimizer' = IF acquisition_optimizer_kind \in OptimizerKinds
                                THEN acquisition_optimizer_kind ELSE "none"
    /\ pc' = "optimizer_chosen"
    /\ UNCHANGED << optimizer, codec, campaign, error, planner_config, reg_model, self_acqf,
                    optimized, ask_return >>

\* _ask: return_params = acquisition_optimizer.optimize()
RunOptimize ==
    /\ pc = "optimizer_chosen"
    /\ IF acquisition_optimizer = "none"
       THEN /\ error' = "UnboundLocalError"
            /\ pc' = "raised"
            /\ UNCHANGED << optimized, ask_return >>
       ELSE /\ optimized' = TRUE
            /\ ask_return' = "optimize"
            /\ pc' = "asked"
            /\ UNCHANGED error
    /\ UNCHANGED << optimizer, codec, campaign, planner_config, reg_model, self_acqf,
                    acquisition_optimizer >>

NextPlanner ==
    \/ PlannerConstruct
    \/ AskStart
    \/ FitRegressionGP
    \/ GetAqcfMinMax
    \/ BuildAcqf
    \/ BuildOptimizer
    \/ RunOptimize

SpecPlanner == InitPlanner /\ [][NextPlanner]_vars

\* ------------------------------------------------------- campaign loop
\* variant: five batches after the initial design
BudgetOfFive(nid, b) == nid + b * 5

\* tests: BUDGET = num_init_design + batch_size * 4
Budget(nid, b) == nid + b * 4

\* the lengths of the batch _batch_sample_selector returns
SelectorLengths(b) == 0..b

\* the lengths of the batch initial_design() returns
InitialDesignLengths(b) == 1..b

InitCampaign ==
    /\ pc = "while"
    /\ param_space = SpaceCatDisc
    /\ batch_size \in 1..MaxBatch
    /\ pop_size = MaxPop
    /\ num_gen = MaxGen
    /\ known_constraints = <<>>
    /\ params = {}
    /\ acqf = "rising"
    /\ pymoo_space = <<>>
    /\ xl = <<>>
    /\ xu = <<>>
    /\ pymoo_problem = NoProblem
    /\ algorithm = NoAlgorithm
    /\ n_evals = 0
    /\ X = NoX
    /\ out = EmptyOut
    /\ error = "none"
    /\ res_pop = <<>>
    /\ return_params = <<>>
    /\ samples_raw = <<>>
    /\ samples = NoX
    /\ olymp_samples = <<>>
    /\ acquisition_type = "ei"
    /\ acquisition_optimizer_kind = "pymoo"
    /\ batched_strategy = "greedy"
    /\ general_parameters = "None"
    /\ num_init_design \in 1..MaxInitDesign
    /\ values = <<>>
    /\ reg_model = FALSE
    /\ self_acqf = "none"
    /\ acquisition_optimizer = "none"
    /\ optimized = FALSE
    /\ ask_return = "none"
    /\ CampaignIdle

\* tests: samples = planner.recommend(campaign.observations) while fewer than
\* BUDGET values are recorded; _ask picks the initial design or the optimizer
Recommend ==
    /\ pc = "while"
    /\ observations.values < Budget(num_init_design, batch_size)
    /\ \E k \in IF observations.values < num_init_design \/ observed_all_nan
                THEN InitialDesignLengths(batch_size)
                ELSE SelectorLengths(batch_size) :
          /\ batch' = k
          /\ pc' = "for"
    /\ UNCHANGED << optimizer, codec, planner, error, observations, observed_all_nan >>

\* tests: campaign.add_observation(sample_arr, measurement) for the next sample
AddObservation ==
    /\ pc = "for"
    /\ batch > 0
    /\ \E measurement \in {"num", "nan"} :
          observed_all_nan' = (observed_all_nan /\ measurement = "nan")
    /\ observations' = [params |-> observations.params + 1,
                        values |-> observations.values + 1]
    /\ batch' = batch - 1
    /\ pc' = "for"
    /\ UNCHANGED << optimizer, codec, planner, error >>

\* tests: the for loop over samples has no sample left (none at all when
\* recommend() returned an empty batch)
EndFor ==
    /\ pc = "for"
    /\ batch = 0
    /\ pc' = "while"
    /\ UNCHANGED << optimizer, codec, planner, error, observations, observed_all_nan, batch >>

\* tests: the while loop is left
ExitLoop ==
    /\ pc = "while"
    /\ ~(observations.values < Budget(num_init_design, batch_size))
    /\ pc' = "exited"
    /\ UNCHANGED << optimizer, codec, planner, campaign, error >>

NextCampaign == Recommend \/ AddObservation \/ EndFor \/ ExitLoop

SpecCampaign == InitCampaign /\ [][NextCampaign]_vars

\* the test is a sequential program: its loop keeps taking steps
SpecCampaignFair == InitCampaign /\ [][NextCampaign]_vars /\ WF_vars(NextCampaign)

\* ================================================================ claims
\* the final population decoded to olympus samples, in ranked order
DecodedPop == PymooToOlympus([form |-> "dict", items |-> res_pop], param_space)

\* a row equal to the point on every dimension
RowMatches(row, point) ==
    /\ Len(row) = Len(point)
    /\ \A j \in 1..Len(row) : PyEq(row[j], point[j])

MatchesMeasured(sample) == \E row \in params : RowMatches(row, DictValues(sample))

SamePoint(a, b) == RowMatches(DictValues(a), DictValues(b))

\* the candidates of the final population that match no measured row, in order
Unmeasured == SelectSeq(DecodedPop, LAMBDA sample : ~MatchesMeasured(sample))

C2_NoMeasuredPointInBatch ==
    pc = "done" =>
        \A i \in 1..Len(return_params) : \A row \in params :
            ~RowMatches(row, DictValues(return_params[i]))

\* C2 witness: a measured candidate of the population was passed over and a
\* later one returned
C2_Witness ==
    /\ pc = "done"
    /\ params # {}
    /\ MatchesMeasured(DecodedPop[1])
    /\ Len(return_params) >= 1

\* C3: no two points of a returned batch are equal, for every final population,
\* also one that holds the same decoded point more than once.
C3_NoTwoEqualInBatch ==
    pc = "done" =>
        \A i \in 1..Len(return_params) : \A j \in 1..Len(return_params) :
            i # j => ~SamePoint(return_params[i], return_params[j])

\* every known constraint holds of the raw values of the point
SatisfiesKnownConstraints(sample) ==
    \A j \in 1..Len(known_constraints) :
        KcCall(known_constraints[j], DictValues(sample)) = "True"

C5_ConstructionFails ==
    ~(batch_size < pop_size) =>
        /\ pc \in {"new", "fatal"}
        /\ pymoo_space = <<>>
        /\ ~pymoo_problem.built
        /\ ~algorithm.built
        /\ return_params = <<>>

\* C5 witness: the constructor reported FATAL for batch_size = pop_size
C5_Witness == pc = "fatal" /\ batch_size = pop_size

\* the distinct, unmeasured, feasible points of the final population
DistinctUnmeasuredFeasible ==
    {DictValues(DecodedPop[i]) : i \in {n \in 1..Len(DecodedPop) :
        /\ ~MatchesMeasured(DecodedPop[n])
        /\ SatisfiesKnownConstraints(DecodedPop[n])}}

\* C6: whenever the final population holds at least batch_size distinct,
\* unmeasured, feasible candidates, the batch has exactly batch_size entries.
C6_FullBatch ==
    (pc = "done" /\ Cardinality(DistinctUnmeasuredFeasible) >= batch_size) =>
        Len(return_params) = batch_size

\* C6 witness: a full batch although the best candidate was already measured
C6_Witness ==
    /\ pc = "done"
    /\ Cardinality(DistinctUnmeasuredFeasible) >= batch_size
    /\ MatchesMeasured(DecodedPop[1])
    /\ Len(return_params) = batch_size

\* C7: when the population is exhausted before batch_size unmeasured points
\* are found, the shorter batch (empty when every candidate was measured) is
\* returned as a normal result, with no error.
C7_ShortBatchIsNormalResult ==
    pc = "done" =>
        /\ error = "none"
        /\ Len(Unmeasured) < batch_size => return_params = Unmeasured

\* C7 witness: every candidate was measured and the empty batch returned
C7_Witness ==
    /\ pc = "done"
    /\ Len(res_pop) >= 1
    /\ Unmeasured = <<>>
    /\ return_params = <<>>
    /\ error = "none"

\* the first n entries of a sequence
FirstN(seq, n) == SubSeq(seq, 1, Min(n, Len(seq)))

\* C8: the batch is exactly the first batch_size candidates, in ranked
\* population order, that match no measured point: an order-preserving
\* subsequence of the population that skips no unmeasured candidate ranked
\* before a selected one.
C8_FirstUnmeasuredInOrder ==
    pc = "done" => return_params = FirstN(Unmeasured, batch_size)

\* C8 witness: a measured candidate sits between two returned ones
C8_Witness ==
    /\ pc = "done"
    /\ batch_size >= 2
    /\ Len(DecodedPop) >= 3
    /\ ~MatchesMeasured(DecodedPop[1])
    /\ MatchesMeasured(DecodedPop[2])
    /\ return_params = << DecodedPop[1], DecodedPop[3] >>

\* the candidate set of the running _evaluate call as name-keyed records
EvaluatedX == AsListDicts(X, param_space)

\* C9: the constraint wrapper yields one penalty per candidate; it is -2
\* exactly when every registered constraint returns true for the candidate's
\* array and 2 as soon as one returns false; no other value occurs.
C9_PenaltyPerCandidate ==
    "G" \in out.keys =>
        /\ Len(out.G) = Len(EvaluatedX)
        /\ \A n \in 1..Len(out.G) :
              /\ out.G[n] \in {-2, 2}
              /\ out.G[n] = -2 <=>
                    \A j \in 1..Len(known_constraints) :
                        KcCall(known_constraints[j], DictValues(EvaluatedX[n])) = "True"
              /\ out.G[n] = 2 <=>
                    \E j \in 1..Len(known_constraints) :
                        KcCall(known_constraints[j], DictValues(EvaluatedX[n])) = "False"

\* C9 witness: two constraints, one true and one false, give the penalty 2
C9_Witness ==
    /\ "G" \in out.keys
    /\ Len(known_constraints) = 2
    /\ out.G[1] = 2
    /\ \E j \in 1..2 :
          KcCall(known_constraints[j], DictValues(EvaluatedX[1])) = "True"

\* C10: each known constraint is applied to the candidate's raw (decoded)
\* values, the option value of a discrete parameter and not its index, so the
\* penalty agrees with the constraints on the point the candidate decodes to.
C10_PenaltyOnDecodedValues ==
    "G" \in out.keys =>
        \A n \in 1..Len(out.G) :
            out.G[n] = -2 <=>
                SatisfiesKnownConstraints(DecodeSample(EvaluatedX[n], param_space))

\* C11: the problem wrapper declares exactly one inequality constraint, and
\* _evaluate writes G, if and only if the known-constraint set is non-empty;
\* with no known constraints it declares none and a returning _evaluate call
\* writes F only.
C11_ConstraintIffKnownConstraints ==
    /\ pymoo_problem.built =>
          pymoo_problem.n_constr = (IF known_constraints # <<>> THEN 1 ELSE 0)
    /\ (error = "none" /\ "F" \in out.keys) =>
          /\ "G" \in out.keys <=> known_constraints # <<>>
          /\ known_constraints = <<>> => (out.keys = {"F"} /\ out.G = <<>>)

\* C11 witness: an _evaluate call of a problem without known constraints
\* returned having written F only
C11_Witness ==
    /\ pc = "minimize"
    /\ n_evals > 0
    /\ known_constraints = <<>>
    /\ pymoo_problem.n_constr = 0
    /\ out.keys = {"F"}

\* the acquisition value of the point an individual decodes to
AcqfOf(ind) == AcqfCall(acqf, DecodeSample(ind, param_space))

\* the objective _evaluate writes for an individual evaluated on its own
ObjectiveOf(ind) ==
    EvaluateOut([form |-> "dict", items |-> <<ind>>], param_space,
                known_constraints, acqf).F[1]

\* C12: the objective written to F is the negation of the acquisition value
\* of the decoded candidate, so a candidate with a higher acquisition value
\* than another individual has a strictly lower objective than it.
C12_ObjectiveIsNegatedAcquisition ==
    "F" \in out.keys =>
        /\ Len(out.F) = Len(EvaluatedX)
        /\ \A n \in 1..Len(out.F) :
              /\ out.F[n] = 0 - AcqfOf(EvaluatedX[n])
              /\ \A ind \in Individuals(pymoo_space) :
                    (~DecodeRaises(ind, param_space)
                        /\ AcqfOf(EvaluatedX[n]) > AcqfOf(ind)) =>
                            out.F[n] < ObjectiveOf(ind)

\* C12 witness: a candidate of positive acquisition value got a negative
\* objective, below that of an individual of lower acquisition value
C12_Witness ==
    /\ "F" \in out.keys
    /\ AcqfOf(EvaluatedX[1]) > 0
    /\ out.F[1] < 0
    /\ \E ind \in Individuals(pymoo_space) :
          ~DecodeRaises(ind, param_space) /\ AcqfOf(EvaluatedX[1]) > AcqfOf(ind)

\* the raw sample an entry of the generated population was encoded from
RawOf(e) ==
    LET n == Min(Len(samples_raw[1]), Len(param_space))
    IN samples_raw[((e - 1) \div n) + 1]

\* C13: for a space of continuous, discrete and categorical parameters and
\* every valid raw assignment v, encoding v as gen_initial_population does and
\* decoding the result with _pymoo_to_olympus gives v back on every parameter.
C13_RoundTrip ==
    (pc \in {"decoded", "raised"} /\ samples_raw # <<>>
        /\ \A i \in 1..Len(param_space) : param_space[i].type \in KnownTypes) =>
        /\ pc = "decoded"
        /\ Len(olymp_samples) = Len(samples.items)
        /\ \A e \in 1..Len(olymp_samples) :
              /\ DictKeys(olymp_samples[e])
                    = [i \in 1..Len(param_space) |-> param_space[i].name]
              /\ RowMatches(DictValues(olymp_samples[e]), RawOf(e))

\* C13 witness: a sample whose discrete value is the second option came back
C13_Witness ==
    /\ pc = "decoded"
    /\ samples_raw # <<>>
    /\ param_space = SpaceCatDisc
    /\ PyEq(samples_raw[1][2], FloatV(50))
    /\ PyEq(samples.items[1][2].v, IntV(1))
    /\ PyEq(olymp_samples[1][2].v, FloatV(50))

\* the samples of the finished _pymoo_to_olympus call as name-keyed records
DecodedFrom == AsListDicts(samples, param_space)

\* the integer a discrete parameter was encoded as
IndexGiven(n, i) == DecodedFrom[n][i].v.val \div 100

\* C14: for a discrete parameter every integer index outside
\* 0..len(options)-1, negative ones included, ends _pymoo_to_olympus with an
\* error and is not decoded to an option; every index inside the range
\* decodes to the option at that position.
C14_IndexOutsideRangeIsError ==
    pc \in {"decoded", "raised"} =>
        \A n \in 1..Len(DecodedFrom) : \A i \in 1..Len(param_space) :
            param_space[i].type = "discrete" =>
                /\ IndexGiven(n, i) \notin 0..(Len(param_space[i].options) - 1)
                      => pc = "raised"
                /\ IndexGiven(n, i) \in 0..(Len(param_space[i].options) - 1)
                      => (pc = "decoded" =>
                            olymp_samples[n][i].v =
                                ToFloat(param_space[i].options[IndexGiven(n, i) + 1]))

\* the model-based branch of _ask has been entered
ModelBased ==
    pc \in {"model_based", "surrogate_fitted", "min_max_known", "acqf_built",
            "optimizer_chosen", "raised", "fatal"}
        \/ (pc = "asked" /\ ask_return = "optimize")

\* the model-based _ask call has ended
AskEnded == ModelBased /\ pc \in {"raised", "fatal", "asked"}

\* C15: with an acquisition_optimizer_kind other than 'gradient', 'genetic'
\* and 'pymoo', the model-based _ask call is aborted with a fatal report
\* before any search work: no surrogate is fitted, no acquisition function is
\* built, no optimize() is run and no batch is returned.
C15_UnknownOptimizerKindAbortsBeforeWork ==
    (ModelBased /\ acquisition_optimizer_kind \notin {"gradient", "genetic", "pymoo"}) =>
        /\ ~reg_model
        /\ self_acqf = "none"
        /\ ~optimized
        /\ ask_return = "none"
        /\ AskEnded => pc = "fatal"

\* C16: with an acquisition_type that is not a recognized kind, the
\* model-based _ask call ends in the fatal 'not understood' report and no
\* acquisition optimizer is constructed or run.
C16_UnknownAcquisitionTypeNotUnderstood ==
    (AskEnded /\ acquisition_type
                    \notin {"ei", "qei", "ucb", "lcb", "variance", "general"}) =>
        /\ pc = "fatal"
        /\ error = "FATAL: not understood"
        /\ acquisition_optimizer = "none"
        /\ ~optimized

\* some parameter of the space has a type tag outside the three known ones
HasUnknownType ==
    \E i \in 1..Len(param_space) :
        param_space[i].type \notin {"continuous", "discrete", "categorical"}

\* C17: a parameter whose type tag is not continuous, discrete or categorical
\* makes the construction of PymooGAOptimizer fail with the ValueError of
\* _set_pymoo_param_space before the problem wrapper and the algorithm exist,
\* so no search starts on such a space.
C17_UnknownTypeFailsConstruction ==
    HasUnknownType =>
        /\ pc \in {"new", "fatal", "ValueError"}
        /\ (pc # "new" /\ batch_size < pop_size) =>
              (pc = "ValueError" /\ error = "ValueError")
        /\ ~pymoo_problem.built
        /\ ~algorithm.built
        /\ n_evals = 0
        /\ return_params = <<>>

\* C17 witness: the constructor, given an ordinal parameter, ended in ValueError
C17_Witness ==
    /\ pc = "ValueError"
    /\ error = "ValueError"
    /\ param_space = SpaceContOrd
    /\ batch_size < pop_size

C19_OptimizeTerminates ==
    /\ [][(pc = "minimize" /\ pc' \in {"minimize", "raised"}) =>
            (n_evals < num_gen /\ n_evals' > n_evals)]_vars
    /\ [][pc' = "returned" => (pc = "minimize" /\ n_evals >= num_gen)]_vars
    /\ [][(pc' = "done" \/ return_params' # return_params) =>
            (pc = "returned" /\ pc' = "done")]_vars
    /\ [][pc # "done"]_vars
    /\ (pc = "minimize") ~> (pc \in {"done", "raised"})

\* C19 witness: a search of budget three was evaluated three times, returned,
\* and its one batch selection gave the batch
C19_Witness ==
    /\ pc = "done"
    /\ num_gen = 3
    /\ n_evals >= num_gen
    /\ Len(return_params) = 1

\* C20: self._params is read-only during an optimize() call: no step of it
\* (_evaluate with _known_constraints_wrapper, _batch_sample_selector)
\* changes the measured set, the candidate set handed to _evaluate still
\* holds the encoded individuals after the call, and so does the final
\* population after the selection.
C20_MeasuredSetReadOnly ==
    /\ [][params' = params]_vars
    /\ []((pc = "minimize" /\ n_evals > 0) =>
            \A n \in 1..Len(EvaluatedX) : EvaluatedX[n] \in Individuals(pymoo_space))
    /\ [](pc = "done" =>
            \A i \in 1..Len(res_pop) : res_pop[i] \in Individuals(pymoo_space))

\* C20 witness: with a measured row and known constraints, an evaluation and
\* the selection of a non-empty batch have run
C20_Witness ==
    /\ pc = "done"
    /\ params # {}
    /\ known_constraints # <<>>
    /\ n_evals > 0
    /\ Len(return_params) >= 1

\* some predicate raises on some candidate of the evaluated set
PredicateRaisesOnX ==
    \E n \in 1..Len(EvaluatedX) : \E j \in 1..Len(known_constraints) :
        KcCall(known_constraints[j], DictValues(EvaluatedX[n])) = "raise"

\* C21: when a known-constraint predicate raises while a candidate set is
\* evaluated, the exception leaves _known_constraints_wrapper and _evaluate:
\* no penalty array is written for that pass, the failure is not turned into
\* a verdict, and the search does not go on.
C21_PredicateExceptionPropagates ==
    (pc \in {"minimize", "raised"} /\ n_evals > 0 /\ PredicateRaisesOnX
        /\ ~PymooToOlympusRaises(X, param_space)) =>
        /\ pc = "raised"
        /\ error = "ConstraintError"
        /\ "G" \notin out.keys
        /\ out.G = <<>>

\* C21 witness: known_constraints_cont raised on a categorical first value
C21_Witness ==
    /\ pc = "raised"
    /\ error = "ConstraintError"
    /\ param_space = SpaceCatDisc
    /\ known_constraints = <<"known_constraints_cont">>
    /\ out.keys = {"F"}

\* C23: _set_pymoo_param_space declares exactly one decision variable per
\* parameter, in parameter-space order and under the parameter's name: a real
\* variable bounded by [low, high] for a continuous parameter, an integer
\* index variable bounded by [0, number of options - 1] for a discrete one, a
\* choice over the literal option list for a categorical one.
C23_OneVariablePerParameter ==
    pymoo_problem.built =>
        /\ Len(pymoo_space) = Len(param_space)
        /\ \A i \in 1..Len(param_space) :
              /\ pymoo_space[i].k = param_space[i].name
              /\ param_space[i].type = "continuous" =>
                    pymoo_space[i].v = [kind |-> "Real", lo |-> param_space[i].low,
                                        hi |-> param_space[i].high, options |-> <<>>]
              /\ param_space[i].type = "discrete" =>
                    pymoo_space[i].v = [kind |-> "Integer", lo |-> 0,
                                        hi |-> Len(param_space[i].options) - 1,
                                        options |-> <<>>]
              /\ param_space[i].type = "categorical" =>
                    pymoo_space[i].v = [kind |-> "Choice", lo |-> 0, hi |-> 0,
                                        options |-> param_space[i].options]

\* C23 witness: a continuous and a discrete parameter were declared as a real
\* variable on [0, 1] and an index variable on [0, 1]
C23_Witness ==
    /\ pc = "ready"
    /\ param_space = SpaceContDisc
    /\ pymoo_space[1].v.kind = "Real"
    /\ pymoo_space[1].v.hi = 100
    /\ pymoo_space[2].v.kind = "Integer"
    /\ pymoo_space[2].v.hi = 1

\* C29: xl and xu have one entry per parameter, and for every parameter they
\* equal the bounds of the decision variable declared for it: low and high of
\* a continuous parameter, the index bounds 0 and len(options) - 1 (as
\* numbers, in hundredths) of a discrete one.
C29_BoundsMatchDeclaredVariables ==
    pymoo_problem.built =>
        /\ Len(pymoo_problem.xl) = Len(param_space)
        /\ Len(pymoo_problem.xu) = Len(param_space)
        /\ \A i \in 1..Len(param_space) :
              /\ param_space[i].type = "continuous" =>
                    /\ pymoo_problem.xl[i] = pymoo_space[i].v.lo
                    /\ pymoo_problem.xu[i] = pymoo_space[i].v.hi
              /\ param_space[i].type = "discrete" =>
                    /\ pymoo_problem.xl[i] = 100 * pymoo_space[i].v.lo
                    /\ pymoo_problem.xu[i] = 100 * pymoo_space[i].v.hi

\* the Python type of the encoded entry of a parameter
NativeType(param) ==
    IF param.type = "discrete" THEN "int"
    ELSE IF param.type = "continuous" THEN "float"
    ELSE "str"

\* C24: gen_initial_population(space, pop, ...) returns a population of
\* exactly pop individuals, one per random sample, each with one natively
\* typed entry per parameter (int index, float, string).
C24_PopulationOfPopIndividuals ==
    (pc = "encoded" /\ ~HasUnknownType) =>
        /\ Len(samples.items) = pop_size
        /\ \A e \in 1..Len(samples.items) :
              /\ Len(samples.items[e]) = Len(param_space)
              /\ \A i \in 1..Len(param_space) :
                    /\ samples.items[e][i].k = param_space[i].name
                    /\ samples.items[e][i].v.ty = NativeType(param_space[i])

\* the value the finished call was given for the parameter of that name
EncodedFor(n, name) ==
    LET i == CHOOSE j \in 1..Len(DecodedFrom[n]) : DecodedFrom[n][j].k = name
    IN DecodedFrom[n][i].v

\* the candidates of the finished call in the other of the two forms
OtherForm ==
    CandidateSet(IF samples.form = "dict" THEN "array" ELSE "dict", DecodedFrom)

InitialDesignDue ==
    Len(values) < num_init_design \/ ~(\E i \in 1..Len(values) : values[i] = "num")

\* the _ask call has gone past its first test
AskBranched == pc \notin {"planner_new", "planner_ready"}

\* C26: _ask returns the initial-design proposal, with no surrogate fitted
\* and no acquisition optimizer constructed, exactly when fewer than
\* num_init_design values are recorded or all recorded values are NaN; in
\* every other state a returned batch is the result of optimize() of the
\* optimizer selected by acquisition_optimizer_kind.
C26_InitialDesignOrSelectedOptimizer ==
    /\ (AskBranched /\ InitialDesignDue) =>
          /\ pc = "asked"
          /\ ask_return = "initial_design"
          /\ ~reg_model
          /\ self_acqf = "none"
          /\ acquisition_optimizer = "none"
          /\ ~optimized
    /\ (AskBranched /\ ~InitialDesignDue) => ask_return # "initial_design"
    /\ (pc = "asked" /\ ~InitialDesignDue) =>
          /\ ask_return = "optimize"
          /\ optimized
          /\ acquisition_optimizer \in {"gradient", "genetic", "pymoo"}
          /\ acquisition_optimizer = acquisition_optimizer_kind

\* C26 witness: one NaN and one number recorded with num_init_design = 2, and
\* the batch comes from the pymoo optimizer
C26_Witness ==
    /\ pc = "asked"
    /\ values = << "nan", "num" >>
    /\ num_init_design = 2
    /\ ask_return = "optimize"
    /\ acquisition_optimizer = "pymoo"
    /\ reg_model

\* the acquisition type and the batch size do not go together
IncompatibleCombination ==
    \/ acquisition_type = "ei" /\ batch_size > 1 /\ batched_strategy = "sequential"
    \/ acquisition_type = "qei" /\ batch_size <= 1

\* C27: for acquisition_type 'ei' with batch_size > 1 under the 'sequential'
\* batched strategy, and for 'qei' with batch_size <= 1, the model-based _ask
\* call builds no acquisition function, constructs and runs no optimizer, and
\* ends in a fatal report.
C27_IncompatibleCombinationIsFatal ==
    (ModelBased /\ IncompatibleCombination) =>
        /\ self_acqf = "none"
        /\ acquisition_optimizer = "none"
        /\ ~optimized
        /\ ask_return = "none"
        /\ pc \notin {"acqf_built", "optimizer_chosen", "raised", "asked"}
        /\ pc = "fatal" =>
              error = IF acquisition_type = "ei" THEN "FATAL: sequential with EI"
                      ELSE "FATAL: QEI needs batch size > 1"

\* C27 witness: 'ei' with a batch of two under 'sequential' ended in the report
C27_Witness ==
    /\ pc = "fatal"
    /\ acquisition_type = "ei"
    /\ batch_size = 2
    /\ batched_strategy = "sequential"
    /\ error = "FATAL: sequential with EI"
    /\ reg_model

\* C28: after the construction of BoTorchPlanner, general_parameters being
\* set implies acquisition_type = 'general', and no step changes the
\* acquisition type when general_parameters is None.
C28_GeneralParametersForceGeneral ==
    /\ []((pc # "planner_new" /\ general_parameters # "None") =>
              acquisition_type = "general")
    /\ [][general_parameters = "None" => acquisition_type' = acquisition_type]_vars

\* C28 witness: a planner constructed with general parameters
C28_Witness ==
    /\ pc = "planner_ready"
    /\ general_parameters = "given"
    /\ acquisition_type = "general"

\* the initial design is complete: _ask takes its model-based branch
InitialDesignComplete ==
    observations.values >= num_init_design /\ ~observed_all_nan

\* recommend() returns to the campaign loop
RecommendReturns == pc = "while" /\ pc' = "for"

\* C30: the campaign loop eventually terminates: once the initial design is
\* complete every recommend() call returns at least one new point, so the
\* number of observations reaches BUDGET and the loop is left.
C30_CampaignLoopTerminates ==
    /\ [][(RecommendReturns /\ InitialDesignComplete) => batch' >= 1]_vars
    /\ <>(pc = "exited")

====
